---- MODULE Spec2Model ----
(***************************************************************************)
(* Job search core of career-coach-ai (src/tools/job_search/core.py).      *)
(*                                                                         *)
(* Strings are TLA+ strings handled character by character (Len, SubSeq,   *)
(* \o), so that splitting, substring tests, lower-casing and sorting are   *)
(* computed as the Python code computes them.                              *)
(***************************************************************************)
EXTENDS Integers, Sequences, FiniteSets, TLC

VARIABLES
    \* ---- search_jobs (core.py:122-289) ----
    pc,                 \* position inside search_jobs
    title,              \* argument title
    expression,         \* argument expression
    backend,            \* argument backend
    limit,              \* argument limit: <<>> for None, <<n>> for the int n
    config,             \* value returned by get_config()
    found_links,        \* the set of accepted "company - title: url" entries
    dIdx,               \* index of `domain` in `domains` (for domain in domains)
    page,               \* for page in range(1, 6)
    page_results_list,  \* results of the current page not yet iterated
    domain_valid_jobs,  \* accepted validations counted for the current domain
    validation_result,  \* accepted flag of the last _validate_job_posting call
    exc,                \* exception in flight / being handled (None if none)
    result,             \* what search_jobs returned to its caller
    io,                 \* the call to ddgs.text or requests.get made by the
                        \* last step, if any
    \* ---- _validate_job_posting called on its own (core.py:344-402) ----
    v_pc,               \* "call" before the call, "returned" after
    v_net,              \* what the network and the text extractor do
    v_verdict,          \* the (accepted, reason) pair returned
    \* ---- a pure function of core.py called on its own ----
    call_pc,            \* "call" before the call, "returned" after
    call_fn,            \* the name of the function called
    call_args,          \* its arguments, a record by parameter name
    call_ret,           \* the value it returned
    \* ---- browser_search_jobs (browser.py:16-117), which has the locals
    \*      title, expression, backend, limit, config and result as well ----
    opened_count,       \* opened_count
    opened_platforms,   \* opened_platforms
    \* ---- chunk_text (document.py:33-46) ----
    start,              \* start
    chunks              \* chunks

vars == <<pc, title, expression, backend, limit, config, found_links, dIdx,
          page, page_results_list, validation_result, exc, domain_valid_jobs,
          result, io, v_pc, v_net, v_verdict,
          call_pc, call_fn, call_args, call_ret,
          opened_count, opened_platforms, start, chunks>>

search_vars == <<pc, title, expression, backend, limit, config, found_links,
                 dIdx, page, page_results_list, validation_result, exc,
                 domain_valid_jobs, result, io>>

validate_vars == <<v_pc, v_net, v_verdict>>

call_vars == <<call_pc, call_fn, call_args, call_ret>>

browser_vars == <<opened_count, opened_platforms>>

chunk_vars == <<start, chunks>>

None == "None"

-----------------------------------------------------------------------------
(***************************************************************************)
(* Python string primitives used by core.py.                               *)
(***************************************************************************)

\* The printable ASCII characters in code-point order (Python compares
\* strings by code point).
Ascii == " !\"#$%&'()*+,-./0123456789:;<=>?@ABCDEFGHIJKLMNOPQRSTUVWXYZ[\\]^_abcdefghijklmnopqrstuvwxyz{|}~"

UpperCase == "ABCDEFGHIJKLMNOPQRSTUVWXYZ"

LowerCase == "abcdefghijklmnopqrstuvwxyz"

Whitespace == {" ", "\t", "\n", "\r", "\f"}

CharAt(s, i) == SubSeq(s, i, i)

Rest(s, i) == SubSeq(s, i, Len(s))

IndexIn(alphabet, c) ==
    IF \E i \in 1..Len(alphabet) : CharAt(alphabet, i) = c
    THEN CHOOSE i \in 1..Len(alphabet) : CharAt(alphabet, i) = c
    ELSE 0

\* ord(c), up to an order-preserving renumbering
Ord(c) == IndexIn(Ascii, c)

\* str < str
RECURSIVE StrLess(_, _)
StrLess(a, b) ==
    IF b = "" THEN FALSE
    ELSE IF a = "" THEN TRUE
    ELSE IF CharAt(a, 1) = CharAt(b, 1) THEN StrLess(Rest(a, 2), Rest(b, 2))
    ELSE Ord(CharAt(a, 1)) < Ord(CharAt(b, 1))

\* str.lower()
LowerChar(c) ==
    LET k == IndexIn(UpperCase, c) IN IF k = 0 THEN c ELSE CharAt(LowerCase, k)

RECURSIVE Lower(_)
Lower(s) == IF s = "" THEN "" ELSE LowerChar(CharAt(s, 1)) \o Lower(Rest(s, 2))

StartsWith(s, p) == Len(p) <= Len(s) /\ SubSeq(s, 1, Len(p)) = p

\* sub in s
Contains(s, sub) ==
    \E i \in 1..(Len(s) - Len(sub) + 1) : SubSeq(s, i, i + Len(sub) - 1) = sub

\* s.find(sub) as a 1-based index, 0 when absent
Find(s, sub) ==
    IF Contains(s, sub)
    THEN CHOOSE i \in 1..(Len(s) - Len(sub) + 1) :
            /\ SubSeq(s, i, i + Len(sub) - 1) = sub
            /\ \A j \in 1..(i - 1) : SubSeq(s, j, j + Len(sub) - 1) # sub
    ELSE 0

\* s.split(sep) for a non-empty separator
RECURSIVE Split(_, _)
Split(s, sep) ==
    LET k == Find(s, sep) IN
    IF k = 0 THEN <<s>>
    ELSE <<SubSeq(s, 1, k - 1)>> \o Split(Rest(s, k + Len(sep)), sep)

\* s.count(sep) for a non-empty separator
Count(s, sep) == Len(Split(s, sep)) - 1

\* s.replace(old, new) for a non-empty old
RECURSIVE Replace(_, _, _)
Replace(s, old, new) ==
    LET k == Find(s, old) IN
    IF k = 0 THEN s
    ELSE SubSeq(s, 1, k - 1) \o new \o Replace(Rest(s, k + Len(old)), old, new)

\* s.strip()
RECURSIVE LStrip(_)
LStrip(s) ==
    IF s # "" /\ CharAt(s, 1) \in Whitespace THEN LStrip(Rest(s, 2)) ELSE s

RECURSIVE RStrip(_)
RStrip(s) ==
    IF s # "" /\ CharAt(s, Len(s)) \in Whitespace
    THEN RStrip(SubSeq(s, 1, Len(s) - 1)) ELSE s

Strip(s) == RStrip(LStrip(s))

\* sep.join(seq)
RECURSIVE Join(_, _)
Join(seq, sep) ==
    IF seq = <<>> THEN ""
    ELSE IF Len(seq) = 1 THEN seq[1]
    ELSE seq[1] \o sep \o Join(Tail(seq), sep)

\* str(n) / f"{n}" for an integer
Digits == "0123456789"

RECURSIVE NatStr(_)
NatStr(n) ==
    IF n < 10 THEN CharAt(Digits, n + 1)
    ELSE NatStr(n \div 10) \o CharAt(Digits, (n % 10) + 1)

IntStr(n) == IF n < 0 THEN "-" \o NatStr(0 - n) ELSE NatStr(n)

\* f"{lst}" for a list of strings without quote characters
RECURSIVE QuoteAll(_)
QuoteAll(seq) ==
    IF seq = <<>> THEN <<>> ELSE <<"'" \o seq[1] \o "'">> \o QuoteAll(Tail(seq))

ListRepr(seq) == "[" \o Join(QuoteAll(seq), ", ") \o "]"

\* f"{type(e).__name__}: {e}"
Exception(type, msg) == [type |-> type, msg |-> msg]

-----------------------------------------------------------------------------
(***************************************************************************)
(* _validate_job_posting (core.py:344-402).                                *)
(*                                                                         *)
(* net describes what the outside world does during one call:              *)
(*   net.fetch   : "ok" or the type of the exception requests.get raises   *)
(*   net.error   : str(e) of that exception                                *)
(*   net.status  : response.status_code                                    *)
(*   net.length  : len(response.text), the raw HTML length                 *)
(*   net.extract : "ok", "none" (trafilatura returns None), "raise", or    *)
(*                 "object" (it returns a truthy value that is not a str,  *)
(*                 on which clean_text.lower() raises)                     *)
(*   net.text    : the text trafilatura extracts                           *)
(***************************************************************************)

HTTP_OK == 200

MinContentLength == 500

primary_indicators ==
    <<"equal opp", "equal emp", "location", "employment",
      "benefits", "apply now", "apply for this job">>

\* found_primary = [ind for ind in primary_indicators if ind in content_lower]
found_primary(clean_text) ==
    LET content_lower == Lower(clean_text) IN
    SelectSeq(primary_indicators, LAMBDA ind : Contains(content_lower, ind))

\* except Exception as e: return True, "Validation error (assumed valid): ..."
ValidationExceptRejects(e) == <<FALSE, "Validation error: " \o e.msg>>

ValidationExcept(e) == <<TRUE, "Validation error (assumed valid): " \o e.msg>>

\* if found_primary and len(content) > 500
ScoreAcceptsAtThreshold(found, content_length) ==
    found # <<>> /\ content_length >= MinContentLength

ScoreAccepts(found, content_length) ==
    found # <<>> /\ content_length > MinContentLength

\* line 397: the reason of a verdict rejected by scoring
FailedReasonWithoutLength(found, content_length, clean_length) ==
    "Validation failed - Found indicators: " \o ListRepr(found)

FailedReason(found, content_length, clean_length) ==
    "Validation failed - Found indicators: " \o ListRepr(found)
    \o ", Content length: " \o IntStr(content_length)
    \o ", Clean text length: " \o IntStr(clean_length)

\* line 380 on a value without .lower()
LowerError ==
    Exception("AttributeError", "'Document' object has no attribute 'lower'")

_validate_job_posting(net) ==
    IF net.fetch # "ok" THEN ValidationExcept(Exception(net.fetch, net.error))
    ELSE IF net.status # HTTP_OK THEN <<FALSE, "HTTP " \o IntStr(net.status)>>
    ELSE IF net.extract = "object" THEN ValidationExcept(LowerError)
    ELSE
        LET clean_text == IF net.extract = "ok" THEN net.text ELSE None IN
        IF clean_text = None \/ clean_text = ""
        THEN <<FALSE, "Trafilatura failed to extract content">>
        ELSE
            LET found == found_primary(clean_text) IN
            IF ScoreAccepts(found, net.length)
            THEN <<TRUE, "Valid job posting: " \o ListRepr(found)>>
            ELSE <<FALSE, FailedReason(found, net.length, Len(clean_text))>>


-----------------------------------------------------------------------------
(***************************************************************************)
(* _validate_job_posting on its own: every behaviour of the network and of *)
(* the text extractor in NetBehaviours, one call each.                     *)
(***************************************************************************)

Net(fetch, error, status, length, extract, text) ==
    [fetch |-> fetch, error |-> error, status |-> status, length |-> length,
     extract |-> extract, text |-> text]

FetchErrors ==
    { Exception("ConnectionError", "Connection refused"),
      Exception("ReadTimeout", "Read timed out. (read timeout=15)"),
      Exception("MissingSchema", "Invalid URL: No scheme supplied") }

NetworkFailures == {"ConnectionError", "ReadTimeout"}

Statuses == {HTTP_OK, 404, 500, 204}

Lengths == {0, 200, MinContentLength - 1, MinContentLength,
            MinContentLength + 1, 2000}

Texts ==
    { "", "Apply Now", "hello world",
      "We are an Equal Opportunity employer",
      "LOCATION: Remote", "Great benefits and full-time employment",
      "Click to apply for this job", "please reapply nowhere",
      "Equal Employment for all" }

NetBehaviours ==
    { Net(e.type, e.msg, 0, 0, "none", "") : e \in FetchErrors }
    \cup { Net("ok", "", s, n, "ok", "Apply Now") :
             s \in Statuses \ {HTTP_OK}, n \in {0, 2000} }
    \cup { Net("ok", "", HTTP_OK, n, x, "") :
             n \in Lengths, x \in {"none", "raise", "object"} }
    \cup { Net("ok", "", HTTP_OK, n, "ok", t) : n \in Lengths, t \in Texts }

NoVerdict == <<FALSE, "">>

IdleNet == Net("ok", "", 0, 0, "none", "")

-----------------------------------------------------------------------------
(***************************************************************************)
(* parse_expression (core.py:17-66).                                       *)
(***************************************************************************)

EndsWith(s, p) ==
    Len(p) <= Len(s) /\ SubSeq(s, Len(s) - Len(p) + 1, Len(s)) = p

\* [term.strip() for term in seq]
StripAll(seq) == [i \in 1..Len(seq) |-> Strip(seq[i])]

\* line 33: what an empty or blank expression returns
BlankPartsWithoutLists == [required |-> <<>>]

BlankParts == [required |-> <<>>, excluded |-> <<>>, alternatives |-> <<>>]

\* line 36
EmptyParts == [required |-> <<>>, excluded |-> <<>>, alternatives |-> <<>>]

\* lines 39-44: the values `part` takes in the loop once stripped, the
\* empty ones skipped
Clauses(expr) ==
    SelectSeq(StripAll(Split(expr, "&&")), LAMBDA part : part # "")

\* lines 48-55: the exclusions of a part that starts with "-"
ExcludedTermsAlwaysSplit(part) ==
    LET excluded == Strip(Rest(part, 2)) IN
    IF StartsWith(excluded, "(") /\ EndsWith(excluded, ")")
    THEN StripAll(Split(SubSeq(excluded, 2, Len(excluded) - 1), "||"))
    ELSE StripAll(Split(excluded, "||"))

ExcludedTerms(part) ==
    LET excluded == Strip(Rest(part, 2)) IN
    IF StartsWith(excluded, "(") /\ EndsWith(excluded, ")")
    THEN LET group_content == SubSeq(excluded, 2, Len(excluded) - 1) IN
         StripAll(Split(group_content, "||"))
    ELSE <<excluded>>

\* lines 58-62: the alternatives of a part that contains "||"
AlternativeTermsKeepParentheses(part) == StripAll(Split(part, "||"))

AlternativeTerms(part) ==
    LET inner == IF StartsWith(part, "(") /\ EndsWith(part, ")")
                 THEN SubSeq(part, 2, Len(part) - 1)
                 ELSE part
    IN StripAll(Split(inner, "||"))

\* lines 46-64: one iteration of the loop on a stripped, non-empty part
AddClause(parts, part) ==
    IF StartsWith(part, "-")
    THEN [parts EXCEPT !.excluded = @ \o ExcludedTerms(part)]
    ELSE IF Contains(part, "||")
    THEN [parts EXCEPT !.alternatives = @ \o AlternativeTerms(part)]
    ELSE [parts EXCEPT !.required = Append(@, part)]

\* for part in and_parts
RECURSIVE ParseClauses(_, _)
ParseClauses(clauses, parts) ==
    IF clauses = <<>> THEN parts
    ELSE ParseClauses(Tail(clauses), AddClause(parts, Head(clauses)))

parse_expression(expr) ==
    IF Strip(expr) = "" THEN BlankParts
    ELSE ParseClauses(Clauses(expr), EmptyParts)

-----------------------------------------------------------------------------
(***************************************************************************)
(* compile_query_for_backend (core.py:69-118).                             *)
(***************************************************************************)

\* line 82: f'"{title}"'
QuotedTitle(t) == "\"" \o t \o "\""

\* lines 85-92: the parts the required terms add to query_parts
RequiredPartsBare(expression_parts, b) == expression_parts.required

RequiredParts(expression_parts, b) ==
    LET required == expression_parts.required IN
    IF required = <<>> THEN <<>>
    ELSE IF b = "google" THEN required
    ELSE IF b \in {"bing", "yahoo"}
    THEN [i \in 1..Len(required) |-> "AND " \o required[i]]
    ELSE <<>>

\* lines 95-105: the part the alternatives add to query_parts
AlternativesPartsAlwaysWrapped(expression_parts, b, query_parts) ==
    LET alternatives == expression_parts.alternatives
        or_group == "(" \o Join(alternatives, " OR ") \o ")"
    IN IF alternatives = <<>> \/ b \notin {"google", "bing", "yahoo"}
       THEN <<>>
       ELSE IF b \in {"bing", "yahoo"} /\ query_parts # <<>>
       THEN <<"AND " \o or_group>>
       ELSE <<or_group>>

AlternativesParts(expression_parts, b, query_parts) ==
    LET alternatives == expression_parts.alternatives
        joined == Join(alternatives, " OR ")
        or_group == IF Len(alternatives) > 1
                    THEN "(" \o joined \o ")"
                    ELSE joined
    IN IF alternatives = <<>> \/ b \notin {"google", "bing", "yahoo"}
       THEN <<>>
       ELSE IF b \in {"bing", "yahoo"} /\ query_parts # <<>>
       THEN <<"AND " \o or_group>>
       ELSE <<or_group>>

\* lines 108-116: the parts the excluded terms add to query_parts
ExcludedPartsUnquoted(expression_parts, b) ==
    LET excluded == expression_parts.excluded IN
    IF b = "google" THEN [i \in 1..Len(excluded) |-> "-" \o excluded[i]]
    ELSE IF b \in {"bing", "yahoo"}
    THEN [i \in 1..Len(excluded) |-> "NOT " \o excluded[i]]
    ELSE <<>>

ExcludedParts(expression_parts, b) ==
    LET excluded == expression_parts.excluded IN
    IF excluded = <<>> THEN <<>>
    ELSE IF b = "google"
    THEN [i \in 1..Len(excluded) |-> "-\"" \o excluded[i] \o "\""]
    ELSE IF b \in {"bing", "yahoo"}
    THEN [i \in 1..Len(excluded) |-> "NOT \"" \o excluded[i] \o "\""]
    ELSE <<>>

\* lines 82-116: query_parts when line 118 is reached
QueryPartsExclusionsFirst(t, expression_parts, b) ==
    LET with_excluded == <<QuotedTitle(t)>> \o ExcludedParts(expression_parts, b)
        with_required == with_excluded \o RequiredParts(expression_parts, b)
    IN with_required
       \o AlternativesParts(expression_parts, b, with_required)

QueryParts(t, expression_parts, b) ==
    LET with_required ==
            <<QuotedTitle(t)>> \o RequiredParts(expression_parts, b)
        with_alternatives ==
            with_required
            \o AlternativesParts(expression_parts, b, with_required)
    IN with_alternatives \o ExcludedParts(expression_parts, b)

compile_query_for_backendAsGoogle(t, expression_parts, b) ==
    Join(QueryParts(t, expression_parts,
                    IF b \in {"google", "bing", "yahoo"} THEN b ELSE "google"),
         " ")

compile_query_for_backend(t, expression_parts, b) ==
    Join(QueryParts(t, expression_parts, b), " ")

-----------------------------------------------------------------------------
(***************************************************************************)
(* Link classifier and title extraction (core.py:292-341).                 *)
(***************************************************************************)

\* _is_job_link(url, domain)
_is_job_linkListingDepth(url, domain) ==
    IF Contains(domain, "boards.greenhouse.io") THEN Contains(url, "/jobs/")
    ELSE IF Contains(domain, "jobs.lever.co") THEN Count(url, "/") >= 3
    ELSE IF Contains(domain, "jobs.ashbyhq.com") THEN Count(url, "/") >= 3
    ELSE FALSE

_is_job_link(url, domain) ==
    IF Contains(domain, "boards.greenhouse.io") THEN Contains(url, "/jobs/")
    ELSE IF Contains(domain, "jobs.lever.co") THEN Count(url, "/") >= 4
    ELSE IF Contains(domain, "jobs.ashbyhq.com") THEN Count(url, "/") >= 4
    ELSE FALSE

\* _extract_company_name(url, domain)
_extract_company_nameHost(url, domain) ==
    LET parts == Split(url, "/") IN
    IF \/ Contains(domain, "boards.greenhouse.io")
       \/ Contains(domain, "jobs.lever.co")
       \/ Contains(domain, "jobs.ashbyhq.com")
    THEN IF Len(parts) > 2 THEN parts[3] ELSE "unknown"
    ELSE "unknown"

_extract_company_name(url, domain) ==
    LET parts == Split(url, "/") IN
    IF \/ Contains(domain, "boards.greenhouse.io")
       \/ Contains(domain, "jobs.lever.co")
       \/ Contains(domain, "jobs.ashbyhq.com")
    THEN IF Len(parts) > 3 THEN parts[4] ELSE "unknown"
    ELSE "unknown"

DefaultJobTitle == "Software Engineer"

\* _extract_job_title(title_text, company)
_extract_job_title(title_text, company) ==
    IF title_text = "" THEN DefaultJobTitle
    ELSE
        LET t1 == Replace(Replace(title_text, " - " \o company, ""),
                          " at " \o company, "")
            t2 == Replace(t1, " - Jobs at ", " - ")
            t3 == Replace(Replace(t2, " - Greenhouse", ""), " - Lever", "")
            t4 == Split(t3, " - ")[1]
        IN  IF Len(Strip(t4)) < 5 THEN DefaultJobTitle ELSE Strip(t4)

\* clean_url = href.split('?')[0].split('#')[0]
CleanUrl(href) == Split(Split(href, "?")[1], "#")[1]

\* job_entry = f"{company} - {job_title}: {clean_url}"
JobEntry(company, job_title, clean_url) ==
    company \o " - " \o job_title \o ": " \o clean_url

\* the entry search_jobs builds for one search result under one domain
EntryOf(r, domain) ==
    LET clean_url == CleanUrl(r.href)
        company   == _extract_company_name(clean_url, domain)
    IN  JobEntry(company, _extract_job_title(r.title, company), clean_url)

\* if domain in href and _is_job_link(href, domain)
IsCandidateAnyLink(href, domain) == Contains(href, domain)

IsCandidate(href, domain) ==
    Contains(href, domain) /\ _is_job_link(href, domain)

\* found_links.add(job_entry)
AddEntryOnePerCompany(links, entry) ==
    IF \E e \in links : Split(e, " - ")[1] = Split(entry, " - ")[1]
    THEN links ELSE links \cup {entry}

AddEntry(links, entry) == links \cup {entry}

\* if len(found_links) >= limit  (lines 207 and 248)
LimitReachedOffByOne(links, lim) == Cardinality(links) > lim

LimitReached(links, lim) == Cardinality(links) >= lim

\* sorted(found_links)
MinStr(S) == CHOOSE x \in S : \A y \in S : x = y \/ StrLess(x, y)

MaxStr(S) == CHOOSE x \in S : \A y \in S : x = y \/ StrLess(y, x)

RECURSIVE SortedDescending(_)
SortedDescending(S) ==
    IF S = {} THEN <<>>
    ELSE LET m == MaxStr(S) IN <<m>> \o SortedDescending(S \ {m})

RECURSIVE Sorted(_)
Sorted(S) ==
    IF S = {} THEN <<>> ELSE LET m == MinStr(S) IN <<m>> \o Sorted(S \ {m})

\* for i, link in enumerate(sorted_links, 1): f"{i}. {link}"
Numbered(seq) == [i \in 1..Len(seq) |-> IntStr(i) \o ". " \o seq[i]]

ShortFormatMax == 5

\* line 266: the message for an empty result set
NoJobsFoundAsError(t, e, b) ==
    "Error searching for jobs: no postings for '" \o t \o "'"

NoJobsFound(t, e, b) ==
    "No job postings found for '" \o t \o "' with expression '" \o e
    \o "' using " \o b \o " backend"

\* lines 265-284: the string returned once the domain loop has finished
FormatResult(links, t, e, b) ==
    IF links = {}
    THEN NoJobsFound(t, e, b)
    ELSE IF Cardinality(links) <= ShortFormatMax
    THEN Join(<<"Found " \o IntStr(Cardinality(links))
                \o " job postings for '" \o t \o "':">> \o Sorted(links), "\n")
    ELSE Join(<<"Found " \o IntStr(Cardinality(links))
                \o " job postings for '" \o t \o "' (showing all):">>
              \o Numbered(Sorted(links)), "\n")

\* lines 286-289: the outer handler turns the exception into a string
Returned(s) == [kind |-> "return", value |-> s]

Raised(e) == [kind |-> "raise", value |-> e.type]

OuterExceptReraise(e) == Raised(e)

OuterExcept(e) ==
    Returned("Error searching for jobs: " \o e.type \o ": " \o e.msg)

Pending == [kind |-> "pending", value |-> ""]

NoException == Exception(None, "")

-----------------------------------------------------------------------------
(***************************************************************************)
(* The inputs of search_jobs and the behaviours of its collaborators.      *)
(***************************************************************************)

MaxLimit == 6

MaxPages == 5

\* line 210: max_results=10
MaxResults == 10

\* search_jobs(title, expression, backend, limit); limit is Optional[int]:
\* <<>> is None, <<n>> is the int n
Call(t, e, b, l) == [title |-> t, expression |-> e, backend |-> b, limit |-> l]

SearchCalls ==
    { Call("Software Engineer", "", "google", <<>>),
      Call("Software Engineer", "remote && -intern", "bing", <<0>>),
      Call("ML Engineer", "(ai || robotics)", "yahoo", <<1>>),
      Call("Software Engineer", "remote", "bing", <<2>>),
      Call("Software Engineer", "remote && -intern", "google", <<MaxLimit>>),
      Call("ML Engineer", "remote && -intern && (ai || robotics)",
           "duckduckgo", <<1>>) }

\* config.yaml is not part of the sources: the values get_config() may return
Configs ==
    { [domains |-> <<"boards.greenhouse.io", "jobs.lever.co",
                     "jobs.ashbyhq.com">>,
       default_limit |-> 3, timeout |-> 10] }

NoConfig == [domains |-> <<>>, default_limit |-> 0, timeout |-> 0]

ConfigError ==
    Exception("FileNotFoundError", "Config file not found: config.yaml")

ClientError == Exception("DDGSException", "client initialization failed")

SearchError == Exception("RatelimitException", "202 Ratelimit")

\* search results {href, title} the provider may return
R(href, t) == [href |-> href, title |-> t]

g1  == R("https://boards.greenhouse.io/acme/jobs/1?gh_src=a", "Senior Engineer at acme")
g1b == R("https://boards.greenhouse.io/acme/jobs/1#app", "Staff Engineer - Greenhouse")
g1c == R("https://boards.greenhouse.io/acme/jobs/1", "Senior Engineer")
g2  == R("https://boards.greenhouse.io/acme/jobs/2", "Data Engineer - acme")
g3  == R("https://boards.greenhouse.io/acme", "Jobs at acme")
l1  == R("https://jobs.lever.co/zeta/abc", "")
l2  == R("https://jobs.lever.co/zeta", "zeta jobs")
l3  == R("https://jobs.lever.co/beta/xyz?lever-source=x", "ML Engineer - Jobs at beta")
a1  == R("https://jobs.ashbyhq.com/Kilo/42", "Robotics Engineer")
a2  == R("https://jobs.ashbyhq.com/kilo/43", "QA")
\* an href whose query string holds what the tests of line 227 look for
x1  == R("https://example.com/acme?next=/jobs/1&ref=boards.greenhouse.io", "Platform Engineer")

\* the result pages ddgs.text may return, for any query and page number
ProviderPages ==
    { <<>>, <<g1, g3>>, <<g1b, g2>>, <<g1c, l1>>, <<l1, l2>>, <<l3>>,
      <<a1, a2>>, <<a2, g2>>, <<x1>> }

\* what the network does while search_jobs validates one URL
SearchNetBehaviours ==
    { Net("ok", "", HTTP_OK, 2000, "ok", "Apply Now"),
      Net("ok", "", HTTP_OK, 2000, "ok", "hello world"),
      Net("ok", "", 404, 0, "none", ""),
      Net("ConnectionError", "Connection refused", 0, 0, "none", "") }

domains == config.domains

domain == domains[dIdx]

\* line 180
expression_parts == parse_expression(expression)

\* line 194
compiled_query == compile_query_for_backend(title, expression_parts, backend)

\* line 195: query = f'site:{domain} {compiled_query} intext:"apply"'
query == "site:" \o domain \o " " \o compiled_query \o " intext:\"apply\""

\* line 210: ddgs.text(query, max_results=10, page=page, backend=backend)
SearchRequest == [fn |-> "ddgs.text", arg |-> query, page |-> page]

\* line 350, reached from line 239: requests.get(clean_url, ...)
FetchRequest(clean_url) == [fn |-> "requests.get", arg |-> clean_url, page |-> 0]

\* line 206: for page in range(1, 6)
PageInRangeOneMore(p) == p <= MaxPages + 1

PageInRange(p) == p <= MaxPages

-----------------------------------------------------------------------------
(***************************************************************************)
(* search_jobs (core.py:169-289), one action per step between two calls to *)
(* a collaborator.                                                         *)
(***************************************************************************)

\* browser_search_jobs is not running
NoBrowser ==
    /\ opened_count = 0
    /\ opened_platforms = <<>>

\* chunk_text is not running
NoChunking ==
    /\ start = 0
    /\ chunks = <<>>

\* no call to a collaborator
NoIO == [fn |-> "none", arg |-> "", page |-> 0]

\* no pure function is being called on its own
NoCall ==
    /\ call_pc = "idle"
    /\ call_fn = ""
    /\ call_args = <<>>
    /\ call_ret = <<>>
    /\ NoBrowser
    /\ NoChunking

Init ==
    /\ pc = "start"
    /\ \E c \in SearchCalls :
        /\ title = c.title
        /\ expression = c.expression
        /\ backend = c.backend
        /\ limit = c.limit
    /\ config = NoConfig
    /\ found_links = {}
    /\ dIdx = 0
    /\ page = 0
    /\ page_results_list = <<>>
    /\ validation_result = FALSE
    /\ exc = NoException
    /\ domain_valid_jobs = 0
    /\ result = Pending
    /\ io = NoIO
    /\ v_pc = "idle"
    /\ v_net = IdleNet
    /\ v_verdict = NoVerdict
    /\ NoCall

\* lines 173-185: get_config() returns; limit defaulted; found_links = set()
GetConfig ==
    /\ pc = "start"
    /\ \E c \in Configs :
        /\ config' = c
        /\ limit' = IF limit = <<>> THEN <<c.default_limit>> ELSE limit
    /\ found_links' = {}
    /\ pc' = "open"
    /\ UNCHANGED <<title, expression, backend, dIdx, page, page_results_list,
                   validation_result, exc, result>>
    /\ UNCHANGED <<domain_valid_jobs, v_pc, v_net, v_verdict, call_vars>>
    /\ UNCHANGED <<browser_vars, chunk_vars>>
    /\ io' = NoIO

\* line 173: get_config() raises
GetConfigRaises ==
    /\ pc = "start"
    /\ exc' = ConfigError
    /\ pc' = "except"
    /\ UNCHANGED <<title, expression, backend, limit, config, found_links,
                   dIdx, page, page_results_list, validation_result, result>>
    /\ UNCHANGED <<domain_valid_jobs, v_pc, v_net, v_verdict, call_vars>>
    /\ UNCHANGED <<browser_vars, chunk_vars>>
    /\ io' = NoIO

\* line 189: with DDGS(timeout=...) as ddgs
OpenClient ==
    /\ pc = "open"
    /\ dIdx' = 1
    /\ pc' = "domain"
    /\ UNCHANGED <<title, expression, backend, limit, config, found_links,
                   page, page_results_list, validation_result, exc, result>>
    /\ UNCHANGED <<domain_valid_jobs, v_pc, v_net, v_verdict, call_vars>>
    /\ UNCHANGED <<browser_vars, chunk_vars>>
    /\ io' = NoIO

\* line 189: DDGS(...) raises
OpenClientRaises ==
    /\ pc = "open"
    /\ exc' = ClientError
    /\ pc' = "except"
    /\ UNCHANGED <<title, expression, backend, limit, config, found_links,
                   dIdx, page, page_results_list, validation_result, result>>
    /\ UNCHANGED <<domain_valid_jobs, v_pc, v_net, v_verdict, call_vars>>
    /\ UNCHANGED <<browser_vars, chunk_vars>>
    /\ io' = NoIO

\* lines 192-206: for domain in domains; the page loop starts at page 1
NextDomain ==
    /\ pc = "domain"
    /\ dIdx <= Len(domains)
    /\ domain_valid_jobs' = 0
    /\ page' = 1
    /\ pc' = "page"
    /\ UNCHANGED <<title, expression, backend, limit, config, found_links,
                   dIdx, page_results_list, validation_result, exc, result>>
    /\ UNCHANGED <<validate_vars, call_vars, browser_vars, chunk_vars>>
    /\ io' = NoIO

\* lines 206-208, 256: the page loop of this domain ends (range exhausted or
\* the limit check at the top of the loop breaks)
PagesDone ==
    /\ pc = "page"
    /\ ~PageInRange(page) \/ LimitReached(found_links, limit[1])
    /\ dIdx' = dIdx + 1
    /\ pc' = "domain"
    /\ UNCHANGED <<title, expression, backend, limit, config, found_links,
                   page, page_results_list, validation_result, exc, result>>
    /\ UNCHANGED <<domain_valid_jobs, v_pc, v_net, v_verdict, call_vars>>
    /\ UNCHANGED <<browser_vars, chunk_vars>>
    /\ io' = NoIO

\* lines 210-217: ddgs.text returns a page; an empty page ends the page loop
SearchPage ==
    /\ pc = "page"
    /\ PageInRange(page) /\ ~LimitReached(found_links, limit[1])
    /\ \E p \in ProviderPages :
        IF p = <<>>
        THEN /\ dIdx' = dIdx + 1
             /\ pc' = "domain"
             /\ UNCHANGED page_results_list
        ELSE /\ page_results_list' = p
             /\ pc' = "result"
             /\ UNCHANGED dIdx
    /\ UNCHANGED <<title, expression, backend, limit, config, found_links,
                   page, validation_result, exc, result>>
    /\ UNCHANGED <<domain_valid_jobs, v_pc, v_net, v_verdict, call_vars>>
    /\ UNCHANGED <<browser_vars, chunk_vars>>
    /\ io' = SearchRequest

\* line 210: ddgs.text raises
SearchPageRaises ==
    /\ pc = "page"
    /\ PageInRange(page) /\ ~LimitReached(found_links, limit[1])
    /\ exc' = SearchError
    /\ pc' = "except_domain"
    /\ UNCHANGED <<title, expression, backend, limit, config, found_links,
                   dIdx, page, page_results_list, validation_result, result>>
    /\ UNCHANGED <<domain_valid_jobs, v_pc, v_net, v_verdict, call_vars>>
    /\ UNCHANGED <<browser_vars, chunk_vars>>
    /\ io' = SearchRequest

\* lines 220-254: one iteration of "for result in page_results_list"
ProcessResult ==
    /\ pc = "result"
    /\ page_results_list # <<>>
    /\ LET r == Head(page_results_list) IN
       IF IsCandidate(r.href, domain)
       THEN \E net \in SearchNetBehaviours :
              LET verdict == _validate_job_posting(net) IN
              /\ io' = FetchRequest(CleanUrl(r.href))
              /\ validation_result' = verdict[1]
              /\ IF verdict[1]
                 THEN /\ domain_valid_jobs' = domain_valid_jobs + 1
                      /\ found_links' = AddEntry(found_links, EntryOf(r, domain))
                      /\ IF LimitReached(found_links', limit[1])
                         THEN /\ page_results_list' = <<>>   \* break
                              /\ page' = page + 1
                              /\ pc' = "page"
                         ELSE /\ page_results_list' = Tail(page_results_list)
                              /\ UNCHANGED <<page, pc>>
                 ELSE /\ page_results_list' = Tail(page_results_list)
                      /\ UNCHANGED <<found_links, domain_valid_jobs, page, pc>>
       ELSE /\ page_results_list' = Tail(page_results_list)
            /\ io' = NoIO
            /\ UNCHANGED <<found_links, domain_valid_jobs, validation_result,
                           page, pc>>
    /\ UNCHANGED <<title, expression, backend, limit, config, dIdx, exc,
                   result>>
    /\ UNCHANGED <<validate_vars, call_vars, browser_vars, chunk_vars>>

\* line 220 falls through: every result of the page was processed
PageDone ==
    /\ pc = "result"
    /\ page_results_list = <<>>
    /\ page' = page + 1
    /\ pc' = "page"
    /\ UNCHANGED <<title, expression, backend, limit, config, found_links,
                   dIdx, page_results_list, validation_result, exc, result>>
    /\ UNCHANGED <<domain_valid_jobs, v_pc, v_net, v_verdict, call_vars>>
    /\ UNCHANGED <<browser_vars, chunk_vars>>
    /\ io' = NoIO

\* lines 258-261: except Exception: log and continue with the next domain
DomainExceptReraise(e) == "except"

DomainExcept(e) == "domain"

DomainFailed ==
    /\ pc = "except_domain"
    /\ pc' = DomainExcept(exc)
    /\ IF pc' = "domain"
       THEN /\ exc' = NoException
            /\ dIdx' = dIdx + 1
       ELSE UNCHANGED <<exc, dIdx>>
    /\ UNCHANGED <<title, expression, backend, limit, config, found_links,
                   page, page_results_list, validation_result, result>>
    /\ UNCHANGED <<domain_valid_jobs, v_pc, v_net, v_verdict, call_vars>>
    /\ UNCHANGED <<browser_vars, chunk_vars>>
    /\ io' = NoIO

\* lines 263-284: the domain loop is over; format and return
Format ==
    /\ pc = "domain"
    /\ dIdx > Len(domains)
    /\ result' = Returned(FormatResult(found_links, title, expression, backend))
    /\ pc' = "done"
    /\ UNCHANGED <<title, expression, backend, limit, config, found_links,
                   dIdx, page, page_results_list, validation_result, exc>>
    /\ UNCHANGED <<domain_valid_jobs, v_pc, v_net, v_verdict, call_vars>>
    /\ UNCHANGED <<browser_vars, chunk_vars>>
    /\ io' = NoIO

\* lines 286-289: except Exception as e: return the error message
Error ==
    /\ pc = "except"
    /\ result' = OuterExcept(exc)
    /\ pc' = "done"
    /\ UNCHANGED <<title, expression, backend, limit, config, found_links,
                   dIdx, page, page_results_list, validation_result, exc>>
    /\ UNCHANGED <<domain_valid_jobs, v_pc, v_net, v_verdict, call_vars>>
    /\ UNCHANGED <<browser_vars, chunk_vars>>
    /\ io' = NoIO

Next ==
    \/ GetConfig
    \/ GetConfigRaises
    \/ OpenClient
    \/ OpenClientRaises
    \/ NextDomain
    \/ PagesDone
    \/ SearchPage
    \/ SearchPageRaises
    \/ ProcessResult
    \/ PageDone
    \/ DomainFailed
    \/ Format
    \/ Error

Spec == Init /\ [][Next]_vars

-----------------------------------------------------------------------------
(***************************************************************************)
(* _validate_job_posting called once for each behaviour in NetBehaviours.  *)
(***************************************************************************)

\* search_jobs is not running
NoSearch ==
    /\ pc = "idle"
    /\ title = ""
    /\ expression = ""
    /\ backend = ""
    /\ limit = <<>>
    /\ config = NoConfig
    /\ found_links = {}
    /\ dIdx = 0
    /\ page = 0
    /\ page_results_list = <<>>
    /\ validation_result = FALSE
    /\ exc = NoException
    /\ domain_valid_jobs = 0
    /\ result = Pending
    /\ io = NoIO

InitValidate ==
    /\ NoSearch
    /\ v_pc = "call"
    /\ v_net \in NetBehaviours
    /\ v_verdict = NoVerdict
    /\ NoCall

Validate ==
    /\ v_pc = "call"
    /\ v_verdict' = _validate_job_posting(v_net)
    /\ v_pc' = "returned"
    /\ UNCHANGED v_net
    /\ UNCHANGED <<search_vars, call_vars, browser_vars, chunk_vars>>

NextValidate == Validate

SpecValidate == InitValidate /\ [][NextValidate]_vars

-----------------------------------------------------------------------------
(***************************************************************************)
(* parse_expression called once on each expression of Expressions.         *)
(***************************************************************************)

\* The expressions parse_expression is called with: every concatenation of
\* at most MaxTokens tokens, and some longer ones.
MaxTokens == 4

Tokens == {"a", "b", "&&", "||", "-", "(", ")", " "}

RECURSIVE TokenStrings(_)
TokenStrings(n) ==
    IF n = 0 THEN {""}
    ELSE LET shorter == TokenStrings(n - 1) IN
         shorter \cup {s \o t : s \in shorter, t \in Tokens}

SampleExpressions ==
    { "senior && python && -intern",
      "senior && remote && -firmware && (robotics || iot)",
      "(python || c++) && -frontend",
      "-(react || typescript)",
      "-react || typescript",
      "(a && b) || c",
      " remote  &&  && ( ai ||  ml ) && - ( qa || test ) " }

Expressions == TokenStrings(MaxTokens) \cup SampleExpressions

InitParse ==
    /\ NoSearch
    /\ v_pc = "idle"
    /\ v_net = IdleNet
    /\ v_verdict = NoVerdict
    /\ call_pc = "call"
    /\ call_fn = "parse_expression"
    /\ \E e \in Expressions : call_args = [expression |-> e]
    /\ call_ret = <<>>
    /\ NoBrowser
    /\ NoChunking

Parse ==
    /\ call_pc = "call"
    /\ call_fn = "parse_expression"
    /\ call_ret' = parse_expression(call_args.expression)
    /\ call_pc' = "returned"
    /\ UNCHANGED <<call_fn, call_args>>
    /\ UNCHANGED <<search_vars, validate_vars, browser_vars, chunk_vars>>

NextParse == Parse

SpecParse == InitParse /\ [][NextParse]_vars

-----------------------------------------------------------------------------
(***************************************************************************)
(* compile_query_for_backend called once on each filter of Filters.        *)
(***************************************************************************)

\* The calls of compile_query_for_backend: every filter with at most
\* MaxTerms terms in each list, for each title and backend below.
MaxTerms == 2

RECURSIVE ListsOver(_, _)
ListsOver(terms, n) ==
    IF n = 0 THEN {<<>>}
    ELSE LET shorter == ListsOver(terms, n - 1) IN
         shorter \cup {Append(l, x) : l \in shorter, x \in terms}

Filters ==
    [required : ListsOver({"remote", "machine learning"}, MaxTerms),
     excluded : ListsOver({"intern", "front end"}, MaxTerms),
     alternatives : ListsOver({"ai", "robotics"}, MaxTerms)]

Titles == {"Software Engineer", "ML Engineer"}

Backends == {"google", "bing", "yahoo", "duckduckgo"}

InitCompile ==
    /\ NoSearch
    /\ v_pc = "idle"
    /\ v_net = IdleNet
    /\ v_verdict = NoVerdict
    /\ call_pc = "call"
    /\ call_fn = "compile_query_for_backend"
    /\ \E t \in Titles, f \in Filters, b \in Backends :
           call_args = [title |-> t, expression_parts |-> f, backend |-> b]
    /\ call_ret = <<>>
    /\ NoBrowser
    /\ NoChunking

Compile ==
    /\ call_pc = "call"
    /\ call_fn = "compile_query_for_backend"
    /\ call_ret' = compile_query_for_backend(call_args.title,
                                             call_args.expression_parts,
                                             call_args.backend)
    /\ call_pc' = "returned"
    /\ UNCHANGED <<call_fn, call_args>>
    /\ UNCHANGED <<search_vars, validate_vars, browser_vars, chunk_vars>>

NextCompile == Compile

SpecCompile == InitCompile /\ [][NextCompile]_vars

-----------------------------------------------------------------------------
(***************************************************************************)
(* _is_job_link and _extract_company_name called on their own, once on     *)
(* each URL of Urls for each domain of LinkDomains.                        *)
(***************************************************************************)

UrlHosts ==
    { "https://boards.greenhouse.io", "https://jobs.lever.co",
      "https://jobs.ashbyhq.com", "https://example.com", "jobs.lever.co", "" }

UrlPaths ==
    { "", "/", "/acme", "/acme/", "/acme/jobs/1", "/acme/abc", "/jobs/",
      "//jobs/1", "/acme?next=/jobs/1", "/acme/jobs/1?gh_src=a#app" }

Urls == {h \o path : h \in UrlHosts, path \in UrlPaths}

LinkDomains ==
    { "boards.greenhouse.io", "jobs.lever.co", "jobs.ashbyhq.com",
      "job-boards.eu.boards.greenhouse.io", "example.com", "" }

InitLink ==
    /\ NoSearch
    /\ v_pc = "idle"
    /\ v_net = IdleNet
    /\ v_verdict = NoVerdict
    /\ call_pc = "call"
    /\ call_fn \in {"_is_job_link", "_extract_company_name"}
    /\ \E u \in Urls, d \in LinkDomains : call_args = [url |-> u, domain |-> d]
    /\ call_ret = <<>>
    /\ NoBrowser
    /\ NoChunking

IsJobLink ==
    /\ call_pc = "call"
    /\ call_fn = "_is_job_link"
    /\ call_ret' = _is_job_link(call_args.url, call_args.domain)
    /\ call_pc' = "returned"
    /\ UNCHANGED <<call_fn, call_args>>
    /\ UNCHANGED <<search_vars, validate_vars, browser_vars, chunk_vars>>

ExtractCompanyName ==
    /\ call_pc = "call"
    /\ call_fn = "_extract_company_name"
    /\ call_ret' = _extract_company_name(call_args.url, call_args.domain)
    /\ call_pc' = "returned"
    /\ UNCHANGED <<call_fn, call_args>>
    /\ UNCHANGED <<search_vars, validate_vars, browser_vars, chunk_vars>>

NextLink == IsJobLink \/ ExtractCompanyName

SpecLink == InitLink /\ [][NextLink]_vars

-----------------------------------------------------------------------------
(***************************************************************************)
(* browser_search_jobs (browser.py:16-117).  Its locals title, expression, *)
(* backend, limit, config, domain, compiled_query and result are the       *)
(* variables of the same names; io is the last call it made to open a tab. *)
(***************************************************************************)

\* urllib.parse.quote_plus: a space becomes "+", letters, digits and "_.-~"
\* are kept, any other ASCII character becomes "%" and its code
PercentEncoded ==
    << <<" ", "+">>, <<"!", "%21">>, <<"\"", "%22">>, <<"#", "%23">>,
       <<"$", "%24">>, <<"%", "%25">>, <<"&", "%26">>, <<"'", "%27">>,
       <<"(", "%28">>, <<")", "%29">>, <<"*", "%2A">>, <<"+", "%2B">>,
       <<",", "%2C">>, <<"/", "%2F">>, <<":", "%3A">>, <<";", "%3B">>,
       <<"<", "%3C">>, <<"=", "%3D">>, <<">", "%3E">>, <<"?", "%3F">>,
       <<"@", "%40">>, <<"[", "%5B">>, <<"]", "%5D">>, <<"^", "%5E">>,
       <<"{", "%7B">>, <<"|", "%7C">>, <<"}", "%7D">> >>

QuoteChar(c) ==
    IF \E i \in 1..Len(PercentEncoded) : PercentEncoded[i][1] = c
    THEN PercentEncoded[CHOOSE i \in 1..Len(PercentEncoded) :
                            PercentEncoded[i][1] = c][2]
    ELSE c

RECURSIVE quote_plus(_)
quote_plus(s) ==
    IF s = "" THEN "" ELSE QuoteChar(CharAt(s, 1)) \o quote_plus(Rest(s, 2))

\* line 80
browser_query ==
    "site:" \o domain \o " " \o compiled_query
            \o " intext:\"apply\" intext:\"employment\""

\* line 85
google_url == "https://www.google.com/search?q=" \o quote_plus(browser_query)

OpenNewTab == [fn |-> "webbrowser.open_new_tab", arg |-> google_url, page |-> 0]

OpenFallback == [fn |-> "subprocess.Popen", arg |-> google_url, page |-> 0]

\* lines 108-117
Opened ==
    Returned("Opened " \o NatStr(opened_count)
             \o " ATS job search tabs in your browser:\n"
             \o "Platforms: " \o Join(opened_platforms, ", ") \o "\n\n"
             \o "Search query: "
             \o compile_query_for_backend(title, expression_parts, backend)
             \o "\n"
             \o (IF expression # "" THEN "Expression used: " \o expression
                 ELSE ""))

NothingOpened ==
    Returned("Failed to open any ATS search tabs. "
             \o "Please check your default browser settings.")

\* lines 119-122
BrowserOuterExcept(e) ==
    Returned("Error opening ATS browser searches: " \o e.msg)

BrowserCalls ==
    { Call("Software Engineer", "", "google", <<>>),
      Call("Software Engineer", "remote && -intern", "google", <<0>>),
      Call("ML Engineer", "(ai || robotics)", "bing", <<1>>),
      Call("Software Engineer", "remote", "google", <<2>>),
      Call("ML Engineer", "remote && -intern", "duckduckgo", <<3>>),
      Call("Data Engineer", "", "google", <<4>>) }

InitBrowser ==
    /\ pc = "start"
    /\ \E c \in BrowserCalls :
        /\ title = c.title
        /\ expression = c.expression
        /\ backend = c.backend
        /\ limit = c.limit
    /\ config = NoConfig
    /\ found_links = {}
    /\ dIdx = 0
    /\ page = 0
    /\ page_results_list = <<>>
    /\ validation_result = FALSE
    /\ exc = NoException
    /\ domain_valid_jobs = 0
    /\ result = Pending
    /\ io = NoIO
    /\ v_pc = "idle"
    /\ v_net = IdleNet
    /\ v_verdict = NoVerdict
    /\ NoCall

\* lines 58-75: get_config() returns; limit defaulted; the counters start
BrowserGetConfig ==
    /\ pc = "start"
    /\ \E c \in Configs :
        /\ config' = c
        /\ limit' = IF limit = <<>> THEN <<c.default_limit>> ELSE limit
    /\ opened_count' = 0
    /\ opened_platforms' = <<>>
    /\ dIdx' = 1
    /\ pc' = "domain"
    /\ io' = NoIO
    /\ UNCHANGED <<title, expression, backend, found_links, page,
                   page_results_list, validation_result, exc,
                   domain_valid_jobs, result>>
    /\ UNCHANGED <<validate_vars, call_vars, chunk_vars>>

\* line 58: get_config() raises
BrowserGetConfigRaises ==
    /\ pc = "start"
    /\ exc' = ConfigError
    /\ pc' = "except"
    /\ io' = NoIO
    /\ UNCHANGED <<title, expression, backend, limit, config, found_links,
                   dIdx, page, page_results_list, validation_result,
                   domain_valid_jobs, result>>
    /\ UNCHANGED <<validate_vars, call_vars, browser_vars, chunk_vars>>

\* lines 79-104: for domain in domains; webbrowser.open_new_tab returns True
OpenTab ==
    /\ pc = "domain"
    /\ dIdx <= Len(domains)
    /\ io' = OpenNewTab
    /\ opened_count' = opened_count + 1
    /\ opened_platforms' = Append(opened_platforms, domain)
    /\ dIdx' = dIdx + 1
    /\ UNCHANGED <<pc, title, expression, backend, limit, config, found_links,
                   page, page_results_list, validation_result, exc,
                   domain_valid_jobs, result>>
    /\ UNCHANGED <<validate_vars, call_vars, chunk_vars>>

\* lines 90-104: open_new_tab returns False, the fallback process is started
OpenTabFallback ==
    /\ pc = "domain"
    /\ dIdx <= Len(domains)
    /\ io' = OpenFallback
    /\ opened_count' = opened_count + 1
    /\ opened_platforms' = Append(opened_platforms, domain)
    /\ dIdx' = dIdx + 1
    /\ UNCHANGED <<pc, title, expression, backend, limit, config, found_links,
                   page, page_results_list, validation_result, exc,
                   domain_valid_jobs, result>>
    /\ UNCHANGED <<validate_vars, call_vars, chunk_vars>>

\* lines 106-108: opening raises; except Exception: continue
OpenTabRaises ==
    /\ pc = "domain"
    /\ dIdx <= Len(domains)
    /\ \E f \in {OpenNewTab, OpenFallback} : io' = f
    /\ dIdx' = dIdx + 1
    /\ UNCHANGED <<pc, title, expression, backend, limit, config, found_links,
                   page, page_results_list, validation_result, exc,
                   domain_valid_jobs, result>>
    /\ UNCHANGED <<validate_vars, call_vars, browser_vars, chunk_vars>>

\* lines 110-119: the loop is over
BrowserReturn ==
    /\ pc = "domain"
    /\ dIdx > Len(domains)
    /\ result' = IF opened_count > 0 THEN Opened ELSE NothingOpened
    /\ pc' = "done"
    /\ io' = NoIO
    /\ UNCHANGED <<title, expression, backend, limit, config, found_links,
                   dIdx, page, page_results_list, validation_result, exc,
                   domain_valid_jobs>>
    /\ UNCHANGED <<validate_vars, call_vars, browser_vars, chunk_vars>>

\* lines 121-124: the outer handler returns the error message
BrowserExcept ==
    /\ pc = "except"
    /\ result' = BrowserOuterExcept(exc)
    /\ pc' = "done"
    /\ io' = NoIO
    /\ UNCHANGED <<title, expression, backend, limit, config, found_links,
                   dIdx, page, page_results_list, validation_result, exc,
                   domain_valid_jobs>>
    /\ UNCHANGED <<validate_vars, call_vars, browser_vars, chunk_vars>>

NextBrowser ==
    \/ BrowserGetConfig
    \/ BrowserGetConfigRaises
    \/ OpenTab
    \/ OpenTabFallback
    \/ OpenTabRaises
    \/ BrowserReturn
    \/ BrowserExcept

SpecBrowser == InitBrowser /\ [][NextBrowser]_vars

-----------------------------------------------------------------------------
(***************************************************************************)
(* chunk_text (document.py:33-46).  call_args holds text, chunk_size and   *)
(* overlap; start and chunks are the locals of the same names.  call_pc is *)
(* "call" before the call, "loop" at the while test, "returned" after.     *)
(***************************************************************************)

MaxTextLen == 6

\* the while loop is followed for at most MaxChunks iterations
MaxChunks == MaxTextLen + 2

\* line 33: chunk_size: int = 1000, overlap: int = 200
DefaultChunkSize == 1000

DefaultOverlap == 200

Letters == "abcdefghijklmnopqrstuvwxyz"

ChunkTexts == {SubSeq(Letters, 1, n) : n \in 0..MaxTextLen}

ChunkSizes == (-1..4) \cup {DefaultChunkSize}

Overlaps == (-1..4) \cup {DefaultOverlap}

\* a slice bound as Python reads it: negative counts from the end, and the
\* result is clamped to 0..n
SliceBound(i, n) ==
    IF i < 0 THEN (IF i + n < 0 THEN 0 ELSE i + n)
    ELSE IF i > n THEN n ELSE i

\* s[a:b]
Slice(s, a, b) ==
    LET lo == SliceBound(a, Len(s))
        hi == SliceBound(b, Len(s))
    IN IF lo >= hi THEN "" ELSE SubSeq(s, lo + 1, hi)

\* line 44: start = end - overlap
NextStartWithoutOverlap(end, overlap) == end

NextStart(end, overlap) == end - overlap

InitChunk ==
    /\ NoSearch
    /\ v_pc = "idle"
    /\ v_net = IdleNet
    /\ v_verdict = NoVerdict
    /\ call_pc = "call"
    /\ call_fn = "chunk_text"
    /\ \E t \in ChunkTexts, c \in ChunkSizes, o \in Overlaps :
          call_args = [text |-> t, chunk_size |-> c, overlap |-> o]
    /\ call_ret = <<>>
    /\ NoBrowser
    /\ NoChunking

\* lines 35-36: the text fits in one chunk
ChunkWhole ==
    /\ call_pc = "call"
    /\ call_fn = "chunk_text"
    /\ Len(call_args.text) <= call_args.chunk_size
    /\ call_ret' = <<call_args.text>>
    /\ call_pc' = "returned"
    /\ UNCHANGED <<call_fn, call_args, chunk_vars>>
    /\ UNCHANGED <<search_vars, validate_vars, browser_vars>>

\* lines 38-39: chunks = []; start = 0
ChunkBegin ==
    /\ call_pc = "call"
    /\ call_fn = "chunk_text"
    /\ Len(call_args.text) > call_args.chunk_size
    /\ chunks' = <<>>
    /\ start' = 0
    /\ call_pc' = "loop"
    /\ UNCHANGED <<call_fn, call_args, call_ret>>
    /\ UNCHANGED <<search_vars, validate_vars, browser_vars>>

\* lines 40-44: one iteration of the while loop
ChunkStep ==
    /\ call_pc = "loop"
    /\ start < Len(call_args.text)
    /\ Len(chunks) < MaxChunks
    /\ LET end == start + call_args.chunk_size IN
        /\ chunks' = Append(chunks, Slice(call_args.text, start, end))
        /\ start' = NextStart(end, call_args.overlap)
    /\ UNCHANGED call_vars
    /\ UNCHANGED <<search_vars, validate_vars, browser_vars>>

\* lines 40, 46: the while test fails; return chunks
ChunkReturn ==
    /\ call_pc = "loop"
    /\ start >= Len(call_args.text)
    /\ call_ret' = chunks
    /\ call_pc' = "returned"
    /\ UNCHANGED <<call_fn, call_args, chunk_vars>>
    /\ UNCHANGED <<search_vars, validate_vars, browser_vars>>

NextChunk == ChunkWhole \/ ChunkBegin \/ ChunkStep \/ ChunkReturn

SpecChunk == InitChunk /\ [][NextChunk]_vars

\* a call that was started runs on: the interpreter executes the next
\* statement of chunk_text whenever there is one
SpecChunkFair == SpecChunk /\ WF_vars(NextChunk)

-----------------------------------------------------------------------------
(***************************************************************************)
(* Properties of search_jobs.                                              *)
(***************************************************************************)

\* C1: whatever the configuration loader, the search provider and the HTTP
\* fetch do (raising included), search_jobs never lets an exception reach
\* its caller, and what it has returned once it is done is a string.
C1_NeverRaises ==
    /\ result.kind # "raise"
    /\ pc = "done" => result.kind = "return"

\* a run in which the client could not be initialised has returned
C1_Witness ==
    /\ pc = "done"
    /\ exc = ClientError
    /\ result.kind = "return"

\* C2: with a limit L >= 0 (given, or taken from the configuration) the set
\* of accepted entries never has more than L elements, and the listing
\* returned shows at most L postings.
C2_AtMostLimit ==
    (limit # <<>> /\ limit[1] >= 0) =>
        /\ Cardinality(found_links) <= limit[1]
        /\ (pc = "done" /\ StartsWith(result.value, "Found ")) =>
               Len(Tail(Split(result.value, "\n"))) <= limit[1]

\* the limit was reached with more results still waiting on the page
C2_Witness ==
    /\ pc = "done"
    /\ limit = <<2>>
    /\ Cardinality(found_links) = 2
    /\ result.kind = "return"

\* the listing lines of a returned string: everything after the header line
ListingLines(value) == Tail(Split(value, "\n"))

\* the entry a listing line shows: the line itself in the short format,
\* the line without its "i. " prefix in the numbered format
ShownEntry(lines, i) ==
    IF Len(lines) <= ShortFormatMax THEN lines[i]
    ELSE Rest(lines[i], Len(IntStr(i)) + 3)

\* the url of a formatted entry "company - title: url"
EntryUrl(entry) == Rest(entry, Find(entry, ": ") + 2)

\* the company of a formatted entry "company - title: url"
EntryCompany(entry) == Split(entry, " - ")[1]

\* C3: when the search provider raises while a domain is searched, the
\* handler goes on with the next domain; no entry accepted so far is ever
\* lost, and all of them are in the string finally returned.
C3_DomainFailureKeepsEntries ==
    [][ /\ pc = "except_domain" =>
            /\ pc' = "domain"
            /\ dIdx' = dIdx + 1
            /\ found_links' = found_links
        /\ found_links \subseteq found_links'
        /\ (pc' = "done" /\ pc = "domain") =>
            /\ result'.kind = "return"
            /\ \A e \in found_links : Contains(result'.value, e) ]_vars

\* the provider has raised on a later page of a domain that is not the
\* last one, after an entry of that very domain had been accepted
C3_Witness ==
    /\ pc = "except_domain"
    /\ page > 1
    /\ dIdx < Len(domains)
    /\ \E e \in found_links : Contains(e, domain)

\* C4: an entry enters the set only in the step that processes a search
\* result whose href contains the current domain and is classified as a job
\* link for it, and whose validation returned accepted = true; the entry
\* added is the one built from that result.
C4_OnlyValidatedJobLinks ==
    [][ found_links' # found_links =>
            /\ pc = "result"
            /\ page_results_list # <<>>
            /\ LET r == Head(page_results_list) IN
               /\ Contains(r.href, domain)
               /\ _is_job_link(r.href, domain)
               /\ validation_result'
               /\ found_links' = found_links \cup {EntryOf(r, domain)} ]_vars

\* an entry has been accepted and a later job link was rejected by the
\* validator without being added
C4_Witness ==
    /\ pc = "result"
    /\ found_links = {EntryOf(g1b, "boards.greenhouse.io")}
    /\ page_results_list = <<>>
    /\ ~validation_result

\* C5 (as claimed): results whose URLs normalize to the same URL contribute
\* one entry, so no two entries of the set have the same URL.
C5_OneEntryPerUrl ==
    \A e1, e2 \in found_links : EntryUrl(e1) = EntryUrl(e2) => e1 = e2

C7_SortedListing ==
    (pc = "done" /\ found_links # {}) =>
        LET lines == ListingLines(result.value) IN
        /\ Len(lines) = Cardinality(found_links)
        /\ \A i \in 1..Len(lines) :
            /\ ShownEntry(lines, i) \in found_links
            /\ Len(lines) > ShortFormatMax =>
                 StartsWith(lines[i], IntStr(i) \o ". ")
        /\ \A i, j \in 1..Len(lines) :
            i < j => StrLess(ShownEntry(lines, i), ShownEntry(lines, j))

\* a numbered listing (more than 5 entries) has been returned
C7_Witness ==
    /\ pc = "done"
    /\ Cardinality(found_links) > ShortFormatMax
    /\ result.kind = "return"

\* the single line returned for an empty result set
NoJobsMessage ==
    "No job postings found for '" \o title \o "' with expression '"
    \o expression \o "' using " \o backend \o " backend"

\* C8 (as claimed): whenever no entry was accepted, the string returned is
\* the 'No job postings found' message.
C8_EmptyAlwaysNoJobs ==
    (pc = "done" /\ found_links = {}) => result = Returned(NoJobsMessage)

\* C8 (amended): when the domain loop ran to its end (neither the
\* configuration loader nor the client initialisation raised) and no entry
\* was accepted, the string returned is the 'No job postings found' message
\* naming title, expression and backend.
C8_EmptyNoJobsAfterLoop ==
    (pc = "done" /\ found_links = {} /\ exc = NoException) =>
        result = Returned(NoJobsMessage)

\* a search with limit 0 has returned
C8_Witness ==
    /\ pc = "done"
    /\ limit = <<0>>
    /\ exc = NoException
    /\ StartsWith(result.value, "No job postings found")

-----------------------------------------------------------------------------
(***************************************************************************)
(* Properties of _validate_job_posting.                                    *)
(***************************************************************************)

\* an indicator phrase occurs, case-insensitively, in the extracted text
IndicatorPresent(net) ==
    /\ net.fetch = "ok"
    /\ net.extract = "ok"
    /\ \E i \in 1..Len(primary_indicators) :
          Contains(Lower(net.text), primary_indicators[i])

\* an exception reached the handler at lines 399-402: the fetch raised, or
\* the scoring raised on what the extractor returned
ExceptionHandled(net) ==
    \/ net.fetch # "ok"
    \/ net.fetch = "ok" /\ net.status = 200 /\ net.extract = "object"

\* C9 (as claimed): accepted = true only if an indicator phrase is in the
\* extracted text and the raw HTML is longer than 500.
C9_AcceptedOnlyIfScored ==
    (v_pc = "returned" /\ v_verdict[1]) =>
        (IndicatorPresent(v_net) /\ v_net.length > 500)

\* C9 (amended): accepted = true only if an indicator phrase is in the
\* extracted text and the raw HTML is longer than 500, or an exception was
\* raised while validating and the verdict is the flagged 'assumed valid'.
C9_AcceptedOnlyIfScoredOrAssumed ==
    (v_pc = "returned" /\ v_verdict[1]) =>
        \/ IndicatorPresent(v_net) /\ v_net.length > 500
        \/ /\ ExceptionHandled(v_net)
           /\ StartsWith(v_verdict[2], "Validation error (assumed valid)")

\* a page with an indicator and a raw length of 501 was accepted
C9_Witness ==
    /\ v_pc = "returned"
    /\ v_verdict[1]
    /\ v_net.fetch = "ok"
    /\ v_net.length = 501
    /\ IndicatorPresent(v_net)

\* C10 (as claimed): a fetch that ends in a network failure or a status
\* other than 200 gives accepted = false.
C10_FetchFailureRejected ==
    (/\ v_pc = "returned"
     /\ \/ v_net.fetch \in NetworkFailures
        \/ v_net.fetch = "ok" /\ v_net.status # 200) => ~v_verdict[1]

\* C11 (as claimed): every exception raised while validating, the ones of
\* the text extraction included, gives the flagged 'assumed valid' verdict.
C11_AnyExceptionAssumedValid ==
    (v_pc = "returned"
     /\ (ExceptionHandled(v_net)
         \/ (v_net.fetch = "ok" /\ v_net.status = 200
             /\ v_net.extract = "raise"))) =>
        /\ v_verdict[1]
        /\ StartsWith(v_verdict[2], "Validation error (assumed valid)")

\* C11 (amended): an exception raised by the fetch or by the scoring gives
\* accepted = true with a reason flagged 'assumed valid' that carries the
\* error; an exception raised by the text extraction is caught on its own
\* and gives accepted = false, 'Trafilatura failed to extract content'.
C11_ExceptionVerdicts ==
    v_pc = "returned" =>
        /\ ExceptionHandled(v_net) =>
             /\ v_verdict[1]
             /\ StartsWith(v_verdict[2], "Validation error (assumed valid): ")
             /\ v_net.fetch # "ok" => Contains(v_verdict[2], v_net.error)
        /\ (v_net.fetch = "ok" /\ v_net.status = 200
            /\ v_net.extract = "raise") =>
             v_verdict = <<FALSE, "Trafilatura failed to extract content">>

\* the scoring raised on a fetched page and the verdict was 'assumed valid'
C11_Witness ==
    /\ v_pc = "returned"
    /\ v_net.fetch = "ok"
    /\ v_net.extract = "object"
    /\ v_verdict[1]

\* a verdict produced by scoring: the page was fetched with status 200 and
\* a non-empty text was extracted from it
Scored(net) ==
    /\ net.fetch = "ok"
    /\ net.status = 200
    /\ net.extract = "ok"
    /\ net.text # ""

\* the indicators of primary_indicators present in the text, as Python
\* prints the list
IndicatorsShown(net) ==
    ListRepr(SelectSeq(primary_indicators,
                       LAMBDA ind : Contains(Lower(net.text), ind)))

\* C12 (as claimed): every verdict produced by scoring, accepted or
\* rejected, reports the indicators found and the content length.
C12_ReasonReportsBoth ==
    (v_pc = "returned" /\ Scored(v_net)) =>
        /\ Contains(v_verdict[2], IndicatorsShown(v_net))
        /\ Contains(v_verdict[2], IntStr(v_net.length))

\* C12 (amended): every verdict produced by scoring reports the indicators
\* found; a rejected one also reports the content length, an accepted one
\* does not.
C12_ReasonReportsIndicators ==
    (v_pc = "returned" /\ Scored(v_net)) =>
        /\ Contains(v_verdict[2], IndicatorsShown(v_net))
        /\ ~v_verdict[1] =>
             Contains(v_verdict[2],
                      "Content length: " \o IntStr(v_net.length) \o ",")
        /\ v_verdict[1] =>
             v_verdict[2] = "Valid job posting: " \o IndicatorsShown(v_net)

\* a page with an indicator but a raw length of exactly 500 was rejected
C12_Witness ==
    /\ v_pc = "returned"
    /\ Scored(v_net)
    /\ ~v_verdict[1]
    /\ v_net.length = 500
    /\ Contains(v_verdict[2], "['apply now']")

-----------------------------------------------------------------------------
(***************************************************************************)
(* Properties of parse_expression.                                         *)
(***************************************************************************)

Parsed == call_fn = "parse_expression" /\ call_pc = "returned"

FilterLists == {"required", "excluded", "alternatives"}

\* the concatenation of f(seq[1]), f(seq[2]), ...
RECURSIVE FlatMap(_, _)
FlatMap(f(_), seq) ==
    IF seq = <<>> THEN <<>> ELSE f(Head(seq)) \o FlatMap(f, Tail(seq))

\* C13: for every input string, however malformed, parse_expression
\* returns a structure with the three lists required, excluded and
\* alternatives, each a list of strings.
C13_ParseTotal ==
    Parsed =>
        /\ DOMAIN call_ret = FilterLists
        /\ \A k \in FilterLists :
             /\ DOMAIN call_ret[k] = 1..Len(call_ret[k])
             /\ \A i \in 1..Len(call_ret[k]) : Len(call_ret[k][i]) >= 0

\* an expression with an unbalanced parenthesis and a dangling operator
\* was parsed
C13_Witness ==
    /\ Parsed
    /\ call_args.expression = "(a||"
    /\ call_ret.alternatives = <<"(a", "">>

\* C14 (as claimed): every term of the three lists is non-empty and has no
\* leading or trailing whitespace.
C14_TermsNonEmptyTrimmed ==
    Parsed =>
        \A k \in FilterLists : \A i \in 1..Len(call_ret[k]) :
            /\ call_ret[k][i] # ""
            /\ Strip(call_ret[k][i]) = call_ret[k][i]

\* the clauses of an expression when it is cut at the "&&" that are outside
\* every parenthesis, each trimmed, the empty ones dropped
RECURSIVE TopLevelSplit(_, _, _)
TopLevelSplit(s, depth, current) ==
    IF s = "" THEN <<current>>
    ELSE IF depth = 0 /\ StartsWith(s, "&&")
    THEN <<current>> \o TopLevelSplit(Rest(s, 3), 0, "")
    ELSE LET c == CharAt(s, 1)
             d == IF c = "(" THEN depth + 1
                  ELSE IF c = ")" /\ depth > 0 THEN depth - 1
                  ELSE depth
         IN TopLevelSplit(Rest(s, 2), d, current \o c)

TopLevelClauses(expr) ==
    SelectSeq(StripAll(TopLevelSplit(expr, 0, "")), LAMBDA part : part # "")

\* C15 (as claimed): the expression is cut into clauses at the top-level
\* "&&" only, each clause is trimmed and the empty ones are skipped, so the
\* filter returned is the one those clauses give.
C15_TopLevelClauses ==
    Parsed =>
        call_ret = ParseClauses(TopLevelClauses(call_args.expression),
                                EmptyParts)

\* s is wrapped in one pair of parentheses
Wrapped(s) ==
    Len(s) >= 2 /\ CharAt(s, 1) = "(" /\ CharAt(s, Len(s)) = ")"

\* the trimmed pieces of s cut at "||"
Pieces(s) == StripAll(Split(s, "||"))

Negated(clause) == CharAt(clause, 1) = "-"

\* what a clause starting with "-" is claimed to exclude
ClaimedExclusions(clause) ==
    LET remainder == Strip(SubSeq(clause, 2, Len(clause))) IN
    IF Wrapped(remainder)
    THEN Pieces(SubSeq(remainder, 2, Len(remainder) - 1))
    ELSE <<remainder>>

\* C16: the clauses starting with "-" contribute only to excluded; a
\* remainder wrapped in parentheses gives one exclusion for each piece of
\* its interior cut at "||", any other remainder is one exclusion even when
\* it contains "||".
C16_NegatedClauses ==
    Parsed =>
        LET clauses == Clauses(call_args.expression)
            negated == SelectSeq(clauses, Negated)
        IN /\ call_ret.excluded = FlatMap(ClaimedExclusions, negated)
           /\ negated = clauses =>
                call_ret.required = <<>> /\ call_ret.alternatives = <<>>

\* '-(react || typescript)' excluded both terms and nothing else
C16_Witness ==
    /\ Parsed
    /\ call_args.expression = "-(react || typescript)"
    /\ call_ret = [required |-> <<>>, excluded |-> <<"react", "typescript">>,
                   alternatives |-> <<>>]

\* what a clause containing "||" is claimed to offer as alternatives
ClaimedAlternatives(clause) ==
    Pieces(IF Wrapped(clause)
           THEN SubSeq(clause, 2, Len(clause) - 1)
           ELSE clause)

IsChoice(clause) == ~Negated(clause) /\ Contains(clause, "||")

IsPlain(clause) == ~Negated(clause) /\ ~Contains(clause, "||")

\* C17: the clauses not starting with "-" that contain "||" contribute
\* only to alternatives, enclosing parentheses stripped and each trimmed
\* piece appended in order; the other clauses not starting with "-" are
\* appended to required unchanged.
C17_ChoiceAndPlainClauses ==
    Parsed =>
        LET clauses == Clauses(call_args.expression) IN
        /\ call_ret.alternatives =
               FlatMap(ClaimedAlternatives, SelectSeq(clauses, IsChoice))
        /\ call_ret.required = SelectSeq(clauses, IsPlain)
        /\ (\A i \in 1..Len(clauses) : ~Negated(clauses[i])) =>
               call_ret.excluded = <<>>

\* a filter with two required clauses, one exclusion and a parenthesised
\* choice was parsed
C17_Witness ==
    /\ Parsed
    /\ call_args.expression =
           "senior && remote && -firmware && (robotics || iot)"
    /\ call_ret = [required |-> <<"senior", "remote">>,
                   excluded |-> <<"firmware">>,
                   alternatives |-> <<"robotics", "iot">>]

-----------------------------------------------------------------------------
(***************************************************************************)
(* Properties of compile_query_for_backend.                                *)
(***************************************************************************)

Compiled == call_fn = "compile_query_for_backend" /\ call_pc = "returned"

KnownBackend == call_args.backend \in {"google", "bing", "yahoo"}

AndBackend == call_args.backend \in {"bing", "yahoo"}

\* each string of seq with a prefix and a suffix put around it
Around(prefix, seq, suffix) ==
    [i \in 1..Len(seq) |-> prefix \o seq[i] \o suffix]

TitlePart == <<"\"" \o call_args.title \o "\"">>

\* the parts claimed for the required terms
ClaimedRequiredParts ==
    Around(IF AndBackend THEN "AND " ELSE "",
           call_args.expression_parts.required, "")

\* the part claimed for the alternatives; `before` are the parts already
\* in the output
ClaimedAlternativesParts(before) ==
    LET alternatives == call_args.expression_parts.alternatives
        joined == Join(alternatives, " OR ")
        group == IF Len(alternatives) > 1 THEN "(" \o joined \o ")"
                 ELSE joined
    IN IF alternatives = <<>> THEN <<>>
       ELSE IF AndBackend /\ before # <<>> THEN <<"AND " \o group>>
       ELSE <<group>>

\* the parts claimed for the excluded terms
ClaimedExcludedParts ==
    IF AndBackend
    THEN Around("NOT \"", call_args.expression_parts.excluded, "\"")
    ELSE Around("-\"", call_args.expression_parts.excluded, "\"")

\* C18: for google, bing and yahoo the query is the parts joined by one
\* space in the order quoted title, required parts, alternatives part,
\* exclusion parts.
C18_PartsInOrder ==
    (Compiled /\ KnownBackend) =>
        LET before == TitlePart \o ClaimedRequiredParts IN
        call_ret = Join(before \o ClaimedAlternativesParts(before)
                        \o ClaimedExcludedParts, " ")

\* a bing query with terms of the three kinds was compiled
C18_Witness ==
    /\ Compiled
    /\ call_args.backend = "bing"
    /\ call_ret = "\"ML Engineer\" AND remote AND (ai OR robotics) NOT \"intern\""

\* the text of the query after the quoted title
AfterTitle == SubSeq(call_ret, Len(TitlePart[1]) + 1, Len(call_ret))

\* C19: the required terms follow the quoted title, one part for each term
\* in the order of the filter: the bare term for google, 'AND <term>' for
\* bing and yahoo.
C19_RequiredRendering ==
    (Compiled /\ KnownBackend) =>
        /\ StartsWith(call_ret, TitlePart[1])
        /\ StartsWith(AfterTitle,
                      Join(Around(" ", ClaimedRequiredParts, ""), ""))

\* two required terms were compiled for yahoo
C19_Witness ==
    /\ Compiled
    /\ call_args.backend = "yahoo"
    /\ call_args.expression_parts.required = <<"remote", "machine learning">>
    /\ StartsWith(call_ret,
                  "\"Software Engineer\" AND remote AND machine learning")

\* C20: after the quoted title and the required parts comes one part for
\* the alternatives: the terms joined by ' OR ', in parentheses exactly
\* when there are several, prefixed by 'AND' for bing and yahoo when the
\* output already has parts (it always has the quoted title) and never
\* prefixed for google; the exclusion parts, if any, follow it.
C20_AlternativesRendering ==
    (Compiled /\ KnownBackend) =>
        LET before == TitlePart \o ClaimedRequiredParts
            upto == Join(before \o ClaimedAlternativesParts(before), " ")
            rest == SubSeq(call_ret, Len(upto) + 1, Len(call_ret))
        IN /\ StartsWith(call_ret, upto)
           /\ rest = Join(Around(" ", ClaimedExcludedParts, ""), "")

\* a single alternative was compiled for bing: no parentheses, 'AND' prefix
C20_Witness ==
    /\ Compiled
    /\ call_args.backend = "bing"
    /\ call_args.expression_parts.alternatives = <<"ai">>
    /\ call_ret = "\"ML Engineer\" AND ai"

\* C21: the query ends with one part for each excluded term, in the order
\* of the filter: -"<term>" for google, NOT "<term>" for bing and yahoo.
C21_ExcludedRendering ==
    (Compiled /\ KnownBackend) =>
        LET excluded == call_args.expression_parts.excluded
            rendered == [i \in 1..Len(excluded) |->
                            IF call_args.backend = "google"
                            THEN " -\"" \o excluded[i] \o "\""
                            ELSE " NOT \"" \o excluded[i] \o "\""]
        IN EndsWith(call_ret, Join(rendered, ""))

\* two exclusions, one of two words, were compiled for google
C21_Witness ==
    /\ Compiled
    /\ call_args.backend = "google"
    /\ call_args.expression_parts.excluded = <<"front end", "intern">>
    /\ EndsWith(call_ret, " -\"front end\" -\"intern\"")

-----------------------------------------------------------------------------
(***************************************************************************)
(* Properties of the calls search_jobs makes to its collaborators.         *)
(***************************************************************************)

Requests == io'.fn = "ddgs.text"

Fetches == io'.fn = "requests.get"

\* C24 (as claimed): the classification of a link runs on the URL without
\* its query string and fragment, so every URL whose content is fetched is,
\* as fetched, a job link of the domain being searched.
C24_ClassifiedOnceNormalized ==
    [][ Fetches =>
            /\ Contains(io'.arg, domain)
            /\ _is_job_link(io'.arg, domain) ]_vars

\* A measure of what search_jobs still has to do: a page holds at most
\* MaxResults results, a domain at most 5 pages, and the domains are taken
\* one after the other.
PageWeight == MaxResults + 2

DomainWeight == 6 * PageWeight + 2

MostDomains ==
    CHOOSE n \in 0..8 :
        /\ \A c \in Configs : Len(c.domains) <= n
        /\ \E c \in Configs : Len(c.domains) = n

DomainsLeft == (Len(domains) + 1 - dIdx) * DomainWeight

Rank ==
    CASE pc = "start" -> (MostDomains + 2) * DomainWeight + 2
      [] pc = "open" -> (MostDomains + 2) * DomainWeight + 1
      [] pc = "domain" -> 2 + DomainsLeft + DomainWeight - 1
      [] pc = "page" ->
            2 + DomainsLeft + (6 - page) * PageWeight + PageWeight - 1
      [] pc = "result" ->
            2 + DomainsLeft + (6 - page) * PageWeight + Len(page_results_list)
      [] pc = "except_domain" -> 2 + DomainsLeft
      [] pc = "except" -> 1
      [] OTHER -> 0

\* C25: the pages of a domain are requested from page 1 upwards, one by
\* one and never beyond page 5; no page is requested once the limit is
\* reached; an empty page ends the paging of its domain; each domain is
\* left for the next one; and the search terminates: every step lowers a
\* measure that is a natural number and is 0 only when search_jobs is done.
C25_BoundedPaging ==
    [][ /\ (pc = "domain" /\ pc' = "page") => page' = 1
        /\ Requests =>
             /\ pc = "page" /\ pc' # "page"
             /\ io'.page = page /\ page' = page
             /\ page \in 1..5
             /\ Cardinality(found_links) < limit[1]
             /\ page_results_list' = <<>> => pc' # "result"
        /\ (pc = "result" /\ pc' = "page") =>
             page' = page + 1 /\ dIdx' = dIdx
        /\ (pc = "result" /\ pc' = "result") => page' = page
        /\ (pc \in {"page", "result", "except_domain"} /\ pc' = "domain") =>
             dIdx' = dIdx + 1
        /\ Rank' < Rank
        /\ Rank' >= 0
        /\ Rank' = 0 <=> pc' = "done" ]_vars

\* the fifth page of the last domain has been requested
C25_Witness ==
    /\ io.fn = "ddgs.text"
    /\ io.page = 5
    /\ dIdx = 3
    /\ pc = "result"

\* C26: once the set holds as many entries as the limit, no step requests
\* a page from the search provider or fetches a URL for validation, in the
\* current domain and in the ones that remain.
C26_NothingAfterLimit ==
    [][ (limit # <<>> /\ Cardinality(found_links) >= limit[1]) =>
            io'.fn = "none" ]_vars

\* the limit was reached in the first domain and the page loop of the
\* second domain was entered
C26_Witness ==
    /\ pc = "page"
    /\ dIdx = 2
    /\ page = 1
    /\ limit = <<2>>
    /\ Cardinality(found_links) = 2

KnownBackends == {"google", "bing", "yahoo"}

\* C28: for a backend outside google, bing and yahoo the query sent to the
\* search provider holds the quoted title and none of the terms of the
\* expression, and the search runs to its usual end: what is returned after
\* the domain loop is the listing or the 'No job postings found' message.
C28_UnknownBackendTitleOnly ==
    [][ backend \notin KnownBackends =>
            /\ Requests =>
                 io'.arg = "site:" \o domain \o " \"" \o title
                           \o "\" intext:\"apply\""
            /\ (pc = "domain" /\ pc' = "done") =>
                 \/ StartsWith(result'.value, "Found ")
                 \/ StartsWith(result'.value, "No job postings found for ")
       ]_vars

\* a page was requested for the backend duckduckgo with a title-only query
C28_Witness ==
    /\ backend = "duckduckgo"
    /\ expression = "remote && -intern && (ai || robotics)"
    /\ io = [fn |-> "ddgs.text", page |-> 1,
             arg |-> "site:jobs.lever.co \"ML Engineer\" intext:\"apply\""]

\* C29 (as claimed): the URL of every entry contains the domain that was
\* searched when it was accepted, and a result whose href does not contain
\* that domain is dropped without a fetch.
C29_EntryUrlInDomain ==
    [][ /\ \A e \in found_links' \ found_links : Contains(EntryUrl(e), domain)
        /\ (pc = "result" /\ page_results_list # <<>>
            /\ ~Contains(Head(page_results_list).href, domain)) =>
               /\ io'.fn = "none"
               /\ found_links' = found_links ]_vars

-----------------------------------------------------------------------------
(***************************************************************************)
(* Properties of _is_job_link and _extract_company_name.                   *)
(***************************************************************************)

Classified == call_fn = "_is_job_link" /\ call_pc = "returned"

Greenhouse(d) == Contains(d, "boards.greenhouse.io")

LeverOrAshby(d) ==
    ~Greenhouse(d)
    /\ (Contains(d, "jobs.lever.co") \/ Contains(d, "jobs.ashbyhq.com"))

\* the pieces of the URL between its "/" characters
Segments(url) == Split(url, "/")

\* the number of "/" characters in the URL
Slashes(url) == Cardinality({i \in 1..Len(url) : CharAt(url, i) = "/"})

\* C22 (as claimed): true for a Greenhouse domain iff the URL contains
\* '/jobs/', true for a Lever or Ashby domain iff the URL has at least 4
\* '/'-delimited segments, false for every other domain.
C22_FourSegments ==
    Classified =>
        LET url == call_args.url
            d == call_args.domain
        IN call_ret <=>
             \/ Greenhouse(d) /\ Contains(url, "/jobs/")
             \/ LeverOrAshby(d) /\ Len(Segments(url)) >= 4

\* C22 (amended): true for a Greenhouse domain iff the URL contains
\* '/jobs/', true for a Lever or Ashby domain iff the URL contains at least
\* 4 '/' characters, that is has at least 5 '/'-delimited segments, false
\* for every other domain.
C22_FourSlashes ==
    Classified =>
        LET url == call_args.url
            d == call_args.domain
        IN call_ret <=>
             \/ Greenhouse(d) /\ Contains(url, "/jobs/")
             \/ LeverOrAshby(d) /\ Slashes(url) >= 4
                               /\ Len(Segments(url)) >= 5

\* a Lever company listing page, of 4 segments, was classified as no job
\* link
C22_Witness ==
    /\ Classified
    /\ call_args = [url |-> "https://jobs.lever.co/acme",
                    domain |-> "jobs.lever.co"]
    /\ call_ret = FALSE

CompanyExtracted == call_fn = "_extract_company_name" /\ call_pc = "returned"

\* C23 (as claimed): the element at index 3 of the URL split on '/' when
\* there are more than 3 elements, 'unknown' otherwise, whatever the domain.
C23_SegmentThree ==
    CompanyExtracted =>
        LET parts == Segments(call_args.url) IN
        call_ret = IF Len(parts) > 3 THEN parts[4] ELSE "unknown"

\* C23 (amended): for a Greenhouse, Lever or Ashby domain, the element at
\* index 3 of the URL split on '/' when there are more than 3 elements and
\* 'unknown' otherwise; 'unknown' for every other domain.
C23_SegmentThreeOfKnownDomain ==
    CompanyExtracted =>
        LET parts == Segments(call_args.url)
            d == call_args.domain
        IN call_ret = IF (Greenhouse(d) \/ LeverOrAshby(d)) /\ Len(parts) > 3
                      THEN parts[4]
                      ELSE "unknown"

\* the company of a Greenhouse posting was extracted
C23_Witness ==
    /\ CompanyExtracted
    /\ call_args = [url |-> "https://boards.greenhouse.io/acme/jobs/1",
                    domain |-> "boards.greenhouse.io"]
    /\ call_ret = "acme"

-----------------------------------------------------------------------------
(***************************************************************************)
(* Properties of browser_search_jobs.                                      *)
(***************************************************************************)

\* C27: the number of browser tabs opened never exceeds limit, the argument
\* or, when it is None, the configured default_limit.
C27_TabsWithinLimit ==
    limit # <<>> => opened_count <= limit[1]

-----------------------------------------------------------------------------
(***************************************************************************)
(* Properties of chunk_text.                                               *)
(***************************************************************************)

Chunking == call_fn = "chunk_text"

text == call_args.text

chunk_size == call_args.chunk_size

overlap == call_args.overlap

Terminating == Chunking /\ 0 <= overlap /\ overlap < chunk_size

\* a text longer than chunk_size, cut with overlap >= chunk_size
Longer == Chunking /\ Len(text) > chunk_size /\ overlap >= chunk_size

Stuck == Longer /\ text # ""

\* the loop was left because its test failed, not because the model stopped
\* following it
Iterating == call_pc = "loop" /\ call_pc' = "loop"

\* C30 (as claimed): when 0 <= overlap < chunk_size, each iteration raises
\* start by chunk_size - overlap > 0 and chunk_text returns; for a text
\* longer than chunk_size with overlap >= chunk_size, start never advances
\* and chunk_text never returns.
C30_LongerNeverReturns ==
    /\ (Terminating ~> call_pc = "returned")
    /\ [][Terminating /\ Iterating =>
            /\ start' = start + (chunk_size - overlap)
            /\ start' > start]_vars
    /\ [](Terminating /\ call_pc = "loop" /\ start < Len(text)
            => Len(chunks) < MaxChunks)
    /\ [][Longer /\ Iterating => start' <= start]_vars
    /\ [](Longer => call_pc # "returned")

\* C30 (amended): when 0 <= overlap < chunk_size, each iteration raises
\* start by chunk_size - overlap > 0 and chunk_text returns; for a
\* non-empty text longer than chunk_size with overlap >= chunk_size, start
\* never advances, the loop is entered and chunk_text never returns.
C30_Termination ==
    /\ (Terminating ~> call_pc = "returned")
    /\ [][Terminating /\ Iterating =>
            /\ start' = start + (chunk_size - overlap)
            /\ start' > start]_vars
    /\ [](Terminating /\ call_pc = "loop" /\ start < Len(text)
            => Len(chunks) < MaxChunks)
    /\ [][Stuck /\ Iterating => start' <= start]_vars
    /\ [](Stuck => call_pc # "returned")
    /\ (Stuck ~> (call_pc = "loop" /\ Len(chunks) = MaxChunks))

\* a text of 6 characters was cut with chunk_size 3 and overlap 1 and
\* chunk_text returned
C30_Witness ==
    /\ Chunking
    /\ call_pc = "returned"
    /\ call_args = [text |-> "abcdef", chunk_size |-> 3, overlap |-> 1]
    /\ call_ret = <<"abc", "cde", "ef">>
====
